---- MODULE Spec2Model ----
\* Model of src/main.py: the command-line driver main(), and the two checks of
\* UnattendedUpdatesChecker it calls, check_unattended_upgrades() and
\* audit_config_file().  The program is sequential; its state is the program
\* counter, the parsed arguments, the locals of the running function, the
\* value the last call returned, what was printed, the exit code, and the log
\* of the calls the program made to the operating system and to the libraries
\* (each with the outcome it got).  The outcome of every such call is an input,
\* drawn when the call is made: the file system may change between two calls.
EXTENDS Integers, Sequences

VARIABLES pc, args, result, content, auto_updates_content, ret,
          config_data, schema_data, audit_ret, calls, stdout, exit_code

vars == <<pc, args, result, content, auto_updates_content, ret,
          config_data, schema_data, audit_ret, calls, stdout, exit_code>>

\* ---------------------------------------------------------------- bounds

\* Longest text of 50unattended-upgrades, in fragments.
MaxLen50 == 3
\* Longest text of 20auto-upgrades, in fragments.
MaxLen20 == 4

\* ------------------------------------------------------- values and text

\* A variable that holds nothing yet, and one that holds v.
NotYet == [set |-> FALSE]
Val(v) == [set |-> TRUE, v |-> v]

\* How a call of one of the two checks ended: it returned v, or it let the
\* exception e propagate to its caller.
Return(v) == [raised |-> FALSE, v |-> v]
Raise(e) == [raised |-> TRUE, exc |-> e]

SeqUpTo(S, n) == UNION {[1..k -> S] : k \in 0..n}

\* Python's `needle in text` on str: needle occurs at some offset of text.
\* A text is the sequence of its fragments; the fragments below are chosen so
\* that a needle occurs in the concatenated text exactly when its fragments
\* occur contiguously.
Contains(text, needle) ==
    \E i \in 0..Len(text) :
        /\ i + Len(needle) <= Len(text)
        /\ SubSeq(text, i + 1, i + Len(needle)) = needle

\* Python's str.endswith on a path, a sequence of characters.
EndsWith(s, suffix) ==
    /\ Len(suffix) <= Len(s)
    /\ SubSeq(s, Len(s) - Len(suffix) + 1, Len(s)) = suffix

\* --------------------------------------------- check_unattended_upgrades

auto_upgrades_file == "/etc/apt/apt.conf.d/50unattended-upgrades"
auto_updates_file == "/etc/apt/apt.conf.d/20auto-upgrades"

\* The fragments the text of 50unattended-upgrades is made of.
Fragments50 == {"Unattended-Upgrade::", "Allowed-Origins", "Package-Blacklist"}
\* 'Unattended-Upgrade::Allowed-Origins'
AllowedOriginsKey == <<"Unattended-Upgrade::", "Allowed-Origins">>

\* The fragments the text of 20auto-upgrades is made of.
Fragments20 == {"APT::Periodic::Update-Package-Lists ",
                "APT::Periodic::Unattended-Upgrade ",
                "\"1\";", "\"0\";"}
\* 'APT::Periodic::Update-Package-Lists "1";'
UpdatePackageListsDirective == <<"APT::Periodic::Update-Package-Lists ", "\"1\";">>
\* 'APT::Periodic::Unattended-Upgrade "1";'
UnattendedUpgradeDirective == <<"APT::Periodic::Unattended-Upgrade ", "\"1\";">>

\* An exception: its class and str(e).
Exc(type, msg) == [type |-> type, msg |-> msg]

\* What subprocess.run(['dpkg', '-s', 'unattended-upgrades']) can do: complete
\* with dpkg's exit status (0 installed, 1 not installed, 2 dpkg's own
\* failure), or raise because dpkg could not be started.
DpkgOutcomes ==
    {[raised |-> FALSE, returncode |-> rc] : rc \in {0, 1, 2}} \cup
    {[raised |-> TRUE, exc |-> e] : e \in
        {Exc("FileNotFoundError", "[Errno 2] No such file or directory: 'dpkg'"),
         Exc("PermissionError", "[Errno 13] Permission denied: 'dpkg'")}}

\* What `with open(path, 'r') as f: ... f.read()` can do: give the text, or
\* raise (the file was removed after the existence test, is unreadable, or is
\* not text).
ReadOutcomes(path, texts) ==
    {[raised |-> FALSE, text |-> t] : t \in texts} \cup
    {[raised |-> TRUE, exc |-> e] : e \in
        {Exc("FileNotFoundError", "[Errno 2] No such file or directory: '" \o path \o "'"),
         Exc("PermissionError", "[Errno 13] Permission denied: '" \o path \o "'"),
         Exc("UnicodeDecodeError",
             "'utf-8' codec can't decode byte 0xff in position 0: invalid start byte")}}

Verdict(enabled, status) == [enabled |-> enabled, status |-> status]

NotInstalled == Verdict(FALSE, "Unattended upgrades package is not installed.")
\* Variant: the message names the file without its directory.
NotFound50BaseName == Verdict(FALSE, "Configuration file not found: 50unattended-upgrades")
NotFound50 == Verdict(FALSE, "Configuration file not found: " \o auto_upgrades_file)
NoAllowedOrigins ==
    Verdict(FALSE, "Unattended-Upgrade::Allowed-Origins not properly configured.")
\* Variant: the message of line 40 copied to line 51 with its path.
NotFound20CopyPaste == Verdict(FALSE, "Configuration file not found: " \o auto_upgrades_file)
NotFound20 == Verdict(FALSE, "Configuration file not found: " \o auto_updates_file)
NoPeriodic == Verdict(FALSE, "Automatic updates are not enabled in APT::Periodic.")
EnabledVerdict == Verdict(TRUE, "Unattended upgrades are enabled and properly configured.")

\* Variant: no `except Exception` clause, so other exceptions propagate.
CheckHandlerNoCatchAll(e) ==
    CASE e.type = "FileNotFoundError" ->
            Return(Verdict(FALSE, "Error: File not found: " \o e.msg))
      [] e.type = "CalledProcessError" ->
            Return(Verdict(FALSE, "Error: Subprocess error: " \o e.msg))
      [] OTHER -> Raise(e)

\* The except clauses of check_unattended_upgrades, in their order; the last
\* one, `except Exception`, takes every exception the others did not.
CheckHandler(e) ==
    CASE e.type = "FileNotFoundError" ->
            Return(Verdict(FALSE, "Error: File not found: " \o e.msg))
      [] e.type = "CalledProcessError" ->
            Return(Verdict(FALSE, "Error: Subprocess error: " \o e.msg))
      [] OTHER ->
            Return(Verdict(FALSE, "Error: An unexpected error occurred: " \o e.msg))

\* Variant: only a negative status (death by a signal) counts as a failure.
PackageMissingNegative(r) == r.returncode < 0
\* Variant: only dpkg's status 1 counts as a failure.
PackageMissingOnlyOne(r) == r.returncode = 1

\* `result.returncode != 0`
PackageMissing(r) == r.returncode # 0

\* `'Unattended-Upgrade::Allowed-Origins' not in content`
KeyMissing(text) == ~Contains(text, AllowedOriginsKey)

\* Variant: `and` in place of `or`.
PeriodicMissingBoth(text) ==
    /\ ~Contains(text, UpdatePackageListsDirective)
    /\ ~Contains(text, UnattendedUpgradeDirective)

\* `'APT::Periodic::Update-Package-Lists "1";' not in auto_updates_content or
\*  'APT::Periodic::Unattended-Upgrade "1";' not in auto_updates_content`
PeriodicMissing(text) ==
    \/ ~Contains(text, UpdatePackageListsDirective)
    \/ ~Contains(text, UnattendedUpgradeDirective)

\* One entry of the call log.
Call(by, op, path, outcome) == [by |-> by, op |-> op, path |-> path, outcome |-> outcome]

\* How a call that may raise is logged: "ok", or the exception's class.
Logged(o) == IF o.raised THEN o.exc.type ELSE "ok"

\* Line 33: the package query.
CheckDpkg ==
    /\ pc = "check_dpkg"
    /\ \E o \in DpkgOutcomes :
        /\ calls' = Append(calls, Call("check", "subprocess.run", "dpkg",
                                       IF o.raised THEN o.exc.type ELSE "exit"))
        /\ IF o.raised
             THEN /\ ret' = CheckHandler(o.exc)
                  /\ pc' = "check_return"
                  /\ UNCHANGED result
             ELSE /\ result' = Val(o.returncode)
                  /\ IF PackageMissing(o)
                       THEN ret' = Return(NotInstalled) /\ pc' = "check_return"
                       ELSE ret' = ret /\ pc' = "check_exists50"
    /\ UNCHANGED <<args, content, auto_updates_content,
                   config_data, schema_data, audit_ret, stdout, exit_code>>

\* Lines 38-40: os.path.exists(auto_upgrades_file).
CheckExists50 ==
    /\ pc = "check_exists50"
    /\ \E exists \in BOOLEAN :
        /\ calls' = Append(calls, Call("check", "os.path.exists", auto_upgrades_file, exists))
        /\ IF ~exists
             THEN ret' = Return(NotFound50) /\ pc' = "check_return"
             ELSE ret' = ret /\ pc' = "check_read50"
    /\ UNCHANGED <<args, result, content, auto_updates_content,
                   config_data, schema_data, audit_ret, stdout, exit_code>>

\* Lines 42-46: read the file and look for the key.
CheckRead50 ==
    /\ pc = "check_read50"
    /\ \E o \in ReadOutcomes(auto_upgrades_file, SeqUpTo(Fragments50, MaxLen50)) :
        /\ calls' = Append(calls, Call("check", "open", auto_upgrades_file, Logged(o)))
        /\ IF o.raised
             THEN /\ ret' = CheckHandler(o.exc)
                  /\ pc' = "check_return"
                  /\ UNCHANGED content
             ELSE /\ content' = Val(o.text)
                  /\ IF KeyMissing(o.text)
                       THEN ret' = Return(NoAllowedOrigins) /\ pc' = "check_return"
                       ELSE ret' = ret /\ pc' = "check_exists20"
    /\ UNCHANGED <<args, result, auto_updates_content,
                   config_data, schema_data, audit_ret, stdout, exit_code>>

\* Lines 49-51: os.path.exists(auto_updates_file).
CheckExists20 ==
    /\ pc = "check_exists20"
    /\ \E exists \in BOOLEAN :
        /\ calls' = Append(calls, Call("check", "os.path.exists", auto_updates_file, exists))
        /\ IF ~exists
             THEN ret' = Return(NotFound20) /\ pc' = "check_return"
             ELSE ret' = ret /\ pc' = "check_read20"
    /\ UNCHANGED <<args, result, content, auto_updates_content,
                   config_data, schema_data, audit_ret, stdout, exit_code>>

\* Lines 53-59: read the file, look for the two directives, and return.
CheckRead20 ==
    /\ pc = "check_read20"
    /\ \E o \in ReadOutcomes(auto_updates_file, SeqUpTo(Fragments20, MaxLen20)) :
        /\ calls' = Append(calls, Call("check", "open", auto_updates_file, Logged(o)))
        /\ pc' = "check_return"
        /\ IF o.raised
             THEN /\ ret' = CheckHandler(o.exc)
                  /\ UNCHANGED auto_updates_content
             ELSE /\ auto_updates_content' = Val(o.text)
                  /\ ret' = Return(IF PeriodicMissing(o.text) THEN NoPeriodic ELSE EnabledVerdict)
    /\ UNCHANGED <<args, result, content,
                   config_data, schema_data, audit_ret, stdout, exit_code>>

\* ----------------------------------------------------- audit_config_file

\* A path is a Python str, the sequence of its characters; Str gives it as text.
RECURSIVE Str(_)
Str(p) == IF p = <<>> THEN "" ELSE Head(p) \o Str(Tail(p))

\* Variant: the else branch falls back to JSON.
LoaderDefaultJson(config_file) ==
    IF EndsWith(config_file, <<".", "y", "a", "m", "l">>)
         \/ EndsWith(config_file, <<".", "y", "m", "l">>)
      THEN "yaml.safe_load"
      ELSE "json.load"

\* Lines 84-92: the loader the suffix of config_file selects.
Loader(config_file) ==
    IF EndsWith(config_file, <<".", "y", "a", "m", "l">>)
         \/ EndsWith(config_file, <<".", "y", "m", "l">>)
      THEN "yaml.safe_load"
      ELSE IF EndsWith(config_file, <<".", "j", "s", "o", "n">>)
             THEN "json.load"
             ELSE "unsupported"

\* What `with open(path, 'r') as f: data = load(f)` can do: open raises, the
\* loader raises its parse error, or the document is loaded.  The document
\* tree itself is not modelled: yaml, json and jsonschema are libraries, and
\* their verdict on a file is an input here.
LoadOutcomes(path, loader) ==
    {[opened |-> FALSE, raised |-> TRUE, exc |-> e] : e \in
        {Exc("FileNotFoundError", "[Errno 2] No such file or directory: '" \o path \o "'"),
         Exc("PermissionError", "[Errno 13] Permission denied: '" \o path \o "'")}} \cup
    {[opened |-> TRUE, raised |-> TRUE, exc |-> e] : e \in
        {Exc(IF loader = "yaml.safe_load" THEN "YAMLError" ELSE "JSONDecodeError",
             "could not parse " \o path),
         Exc("UnicodeDecodeError",
             "'utf-8' codec can't decode byte 0xff in position 0: invalid start byte")}} \cup
    {[opened |-> TRUE, raised |-> FALSE]}

\* What validate(instance=config_data, schema=schema_data) can do: return, or
\* raise ValidationError (the instance violates the schema) or SchemaError
\* (the schema is itself invalid).
ValidateOutcomes ==
    {[raised |-> FALSE]} \cup
    {[raised |-> TRUE, exc |-> e] : e \in
        {Exc("ValidationError", "instance violates the schema"),
         Exc("SchemaError", "schema is not valid")}}

\* Variant: no `except Exception` clause, so other exceptions propagate.
AuditHandlerNoCatchAll(e) ==
    CASE e.type = "FileNotFoundError" -> Return(FALSE)
      [] e.type = "YAMLError" -> Return(FALSE)
      [] e.type = "JSONDecodeError" -> Return(FALSE)
      [] e.type = "ValidationError" -> Return(FALSE)
      [] OTHER -> Raise(e)

\* The except clauses of audit_config_file, in their order: every one of them
\* returns False, and the last one, `except Exception`, takes every exception
\* the others did not.
AuditHandler(e) ==
    CASE e.type = "FileNotFoundError" -> Return(FALSE)
      [] e.type = "YAMLError" -> Return(FALSE)
      [] e.type = "JSONDecodeError" -> Return(FALSE)
      [] e.type = "ValidationError" -> Return(FALSE)
      [] OTHER -> Return(FALSE)

\* The log of one `with open(...): load(...)`.
LoadCalls(path, loader, o) ==
    <<Call("audit", "open", path, IF o.opened THEN "ok" ELSE o.exc.type)>> \o
    (IF o.opened THEN <<Call("audit", loader, path, Logged(o))>> ELSE <<>>)

\* Lines 90-92: no loader for this suffix.
AuditUnsupported ==
    /\ pc = "audit_config"
    /\ Loader(args.config_file.v) = "unsupported"
    /\ audit_ret' = Return(FALSE)
    /\ pc' = "audit_return"
    /\ UNCHANGED <<args, result, content, auto_updates_content, ret,
                   config_data, schema_data, calls, stdout, exit_code>>

\* Lines 84-89: open the configuration file and parse it.
AuditLoadConfig ==
    /\ pc = "audit_config"
    /\ Loader(args.config_file.v) # "unsupported"
    /\ \E o \in LoadOutcomes(Str(args.config_file.v), Loader(args.config_file.v)) :
        /\ calls' = calls \o LoadCalls(Str(args.config_file.v), Loader(args.config_file.v), o)
        /\ IF o.raised
             THEN /\ audit_ret' = AuditHandler(o.exc)
                  /\ pc' = "audit_return"
                  /\ UNCHANGED config_data
             ELSE /\ config_data' = Val("document")
                  /\ pc' = "audit_schema"
                  /\ UNCHANGED audit_ret
    /\ UNCHANGED <<args, result, content, auto_updates_content, ret,
                   schema_data, stdout, exit_code>>

\* Lines 94-95: open the schema file and parse it as JSON.
AuditLoadSchema ==
    /\ pc = "audit_schema"
    /\ \E o \in LoadOutcomes(Str(args.schema_file.v), "json.load") :
        /\ calls' = calls \o LoadCalls(Str(args.schema_file.v), "json.load", o)
        /\ IF o.raised
             THEN /\ audit_ret' = AuditHandler(o.exc)
                  /\ pc' = "audit_return"
                  /\ UNCHANGED schema_data
             ELSE /\ schema_data' = Val("schema")
                  /\ pc' = "audit_validate"
                  /\ UNCHANGED audit_ret
    /\ UNCHANGED <<args, result, content, auto_updates_content, ret,
                   config_data, stdout, exit_code>>

\* Lines 97-99: validate, and return True when validate returns.
AuditValidate ==
    /\ pc = "audit_validate"
    /\ \E o \in ValidateOutcomes :
        /\ calls' = Append(calls, Call("audit", "validate", "", Logged(o)))
        /\ audit_ret' = IF o.raised THEN AuditHandler(o.exc) ELSE Return(TRUE)
    /\ pc' = "audit_return"
    /\ UNCHANGED <<args, result, content, auto_updates_content, ret,
                   config_data, schema_data, stdout, exit_code>>

\* ------------------------------------------------------------------ main

\* Python's truth value of an argparse option: None when the option was not
\* given, and a str otherwise, which is true unless empty.
Truthy(x) == x.set /\ Len(x.v) > 0

\* `args.config_file and args.schema_file`
AuditRequested(a) == Truthy(a.config_file) /\ Truthy(a.schema_file)

\* The command lines: each option absent or given with one of these values.
ConfigPaths ==
    {<<>>,
     <<"c", ".", "y", "m", "l">>,
     <<"c", ".", "y", "a", "m", "l">>,
     <<"c", ".", "j", "s", "o", "n">>,
     <<"c", ".", "t", "x", "t">>,
     <<"y", "m", "l">>}
SchemaPaths == {<<>>, <<"s", ".", "j", "s", "o", "n">>}
Optional(S) == {NotYet} \cup {Val(s) : s \in S}

\* sys.exit(code)
Exit(code) ==
    /\ calls' = Append(calls, Call("main", "sys.exit", "", code))
    /\ exit_code' = Val(code)
    /\ pc' = "done"

\* main returns: the interpreter ends with exit code 0.
EndOfMain ==
    /\ exit_code' = Val(0)
    /\ pc' = "done"
    /\ UNCHANGED calls

\* An exception leaves main: the interpreter prints the traceback to stderr
\* and ends with exit code 1.
Crash ==
    /\ exit_code' = Val(1)
    /\ pc' = "done"
    /\ UNCHANGED calls

\* Lines 135-140.
MainStart ==
    /\ pc = "main_start"
    /\ pc' = IF args.check_upgrades THEN "check_dpkg" ELSE "main_audit"
    /\ UNCHANGED <<args, result, content, auto_updates_content, ret,
                   config_data, schema_data, audit_ret, calls, stdout, exit_code>>

\* Lines 141-142: the check has ended and its locals are gone; print(status).
MainPrintStatus ==
    /\ pc = "check_return"
    /\ IF ret.raised
         THEN Crash /\ UNCHANGED stdout
         ELSE /\ stdout' = Append(stdout, ret.v.status)
              /\ pc' = "main_audit"
              /\ UNCHANGED <<calls, exit_code>>
    /\ result' = NotYet
    /\ content' = NotYet
    /\ auto_updates_content' = NotYet
    /\ UNCHANGED <<args, ret, config_data, schema_data, audit_ret>>

\* Line 144.
MainAudit ==
    /\ pc = "main_audit"
    /\ IF AuditRequested(args)
         THEN pc' = "main_exists_config" /\ UNCHANGED <<calls, exit_code>>
         ELSE EndOfMain
    /\ UNCHANGED <<args, result, content, auto_updates_content, ret,
                   config_data, schema_data, audit_ret, stdout>>

\* Lines 145-147 (what = "Configuration", the path args.config_file) and lines
\* 148-150 (what = "Schema", the path args.schema_file).
ExistsOrExit(what, path, exists, next) ==
    IF exists
      THEN /\ calls' = Append(calls, Call("main", "os.path.exists", Str(path), TRUE))
           /\ pc' = next
           /\ UNCHANGED <<stdout, exit_code>>
      ELSE /\ stdout' = Append(stdout, "Error: " \o what \o " file not found: " \o Str(path))
           /\ calls' = calls \o <<Call("main", "os.path.exists", Str(path), FALSE),
                                  Call("main", "sys.exit", "", 1)>>
           /\ exit_code' = Val(1)
           /\ pc' = "done"

\* Lines 145-147.
MainExistsConfig ==
    /\ pc = "main_exists_config"
    /\ \E exists \in BOOLEAN :
        ExistsOrExit("Configuration", args.config_file.v, exists, "main_exists_schema")
    /\ UNCHANGED <<args, result, content, auto_updates_content, ret,
                   config_data, schema_data, audit_ret>>

\* Lines 148-150.
MainExistsSchema ==
    /\ pc = "main_exists_schema"
    /\ \E exists \in BOOLEAN :
        ExistsOrExit("Schema", args.schema_file.v, exists, "audit_config")
    /\ UNCHANGED <<args, result, content, auto_updates_content, ret,
                   config_data, schema_data, audit_ret>>

\* Variant: the two branches of line 152 exchanged.
ReportsValidInverted(r) == ~r.v

\* `if checker.audit_config_file(...)` on line 152: the branch main takes on
\* what the audit returned.
ReportsValid(r) == r.v

\* Lines 152-156: the audit has ended and its locals are gone.
MainReport ==
    /\ pc = "audit_return"
    /\ IF audit_ret.raised
         THEN Crash /\ UNCHANGED stdout
         ELSE IF ReportsValid(audit_ret)
           THEN /\ stdout' = Append(stdout, "Configuration file is valid.")
                /\ EndOfMain
           ELSE /\ stdout' = Append(stdout, "Configuration file is invalid.")
                /\ Exit(1)
    /\ config_data' = NotYet
    /\ schema_data' = NotYet
    /\ UNCHANGED <<args, result, content, auto_updates_content, ret, audit_ret>>

Init ==
    /\ pc = "main_start"
    /\ args \in [check_upgrades : BOOLEAN,
                 config_file : Optional(ConfigPaths),
                 schema_file : Optional(SchemaPaths)]
    /\ result = NotYet
    /\ content = NotYet
    /\ auto_updates_content = NotYet
    /\ ret = NotYet
    /\ config_data = NotYet
    /\ schema_data = NotYet
    /\ audit_ret = NotYet
    /\ calls = <<>>
    /\ stdout = <<>>
    /\ exit_code = NotYet

Next ==
    \/ MainStart
    \/ CheckDpkg
    \/ CheckExists50
    \/ CheckRead50
    \/ CheckExists20
    \/ CheckRead20
    \/ MainPrintStatus
    \/ MainAudit
    \/ MainExistsConfig
    \/ MainExistsSchema
    \/ AuditUnsupported
    \/ AuditLoadConfig
    \/ AuditLoadSchema
    \/ AuditValidate
    \/ MainReport

Spec == Init /\ [][Next]_vars

\* ---------------------------------------------------------------- claims

\* What the program observed, read off the call log and the locals.
CheckCalls == SelectSeq(calls, LAMBDA c : c.by = "check")
AuditCalls == SelectSeq(calls, LAMBDA c : c.by = "audit")

\* Function `by` called `op` on `path` and got `outcome`.
Saw(by, op, path, outcome) ==
    \E i \in 1..Len(calls) : calls[i] = Call(by, op, path, outcome)

\* Function `by` called `op` on `path` and got something else than `outcome`.
SawOther(by, op, path, outcome) ==
    \E i \in 1..Len(calls) :
        /\ calls[i].by = by
        /\ calls[i].op = op
        /\ calls[i].path = path
        /\ calls[i].outcome # outcome

InCheck == pc \in {"check_dpkg", "check_exists50", "check_read50",
                   "check_exists20", "check_read20", "check_return"}

DpkgExited == Saw("check", "subprocess.run", "dpkg", "exit")
DpkgRaised == SawOther("check", "subprocess.run", "dpkg", "exit")
PackageAbsent == DpkgExited /\ result.set /\ result.v # 0
PackagePresent == DpkgExited /\ result.set /\ result.v = 0
File50Absent == Saw("check", "os.path.exists", auto_upgrades_file, FALSE)
File50Present == Saw("check", "os.path.exists", auto_upgrades_file, TRUE)
Read50Ok == Saw("check", "open", auto_upgrades_file, "ok")
Read50Raised == SawOther("check", "open", auto_upgrades_file, "ok")
KeyPresent == Read50Ok /\ content.set /\ Contains(content.v, AllowedOriginsKey)
KeyAbsent == Read50Ok /\ content.set /\ ~Contains(content.v, AllowedOriginsKey)
File20Absent == Saw("check", "os.path.exists", auto_updates_file, FALSE)
File20Present == Saw("check", "os.path.exists", auto_updates_file, TRUE)
Read20Ok == Saw("check", "open", auto_updates_file, "ok")
Read20Raised == SawOther("check", "open", auto_updates_file, "ok")
UpdateListsPresent ==
    Read20Ok /\ auto_updates_content.set
        /\ Contains(auto_updates_content.v, UpdatePackageListsDirective)
UnattendedPresent ==
    Read20Ok /\ auto_updates_content.set
        /\ Contains(auto_updates_content.v, UnattendedUpgradeDirective)
PeriodicAbsent ==
    Read20Ok /\ auto_updates_content.set /\ ~(UpdateListsPresent /\ UnattendedPresent)

SomeStepFailed ==
    \/ DpkgRaised \/ PackageAbsent
    \/ File50Absent \/ Read50Raised \/ KeyAbsent
    \/ File20Absent \/ Read20Raised \/ PeriodicAbsent

\* C1: check_unattended_upgrades never raises: whatever the package query and
\* the two files do, the call returns a pair (enabled, message), and enabled
\* is false whenever a step failed or an exception occurred.
C1_NeverRaises ==
    pc = "check_return" =>
        /\ ~ret.raised
        /\ ret.v.enabled \in BOOLEAN
        /\ DOMAIN ret.v = {"enabled", "status"}
        /\ (SomeStepFailed => ret.v.enabled = FALSE)

\* C1's case: 50unattended-upgrades exists but cannot be read.
C1_Witness ==
    /\ pc = "check_return"
    /\ Saw("check", "open", auto_upgrades_file, "PermissionError")

\* The calls of the check, in the order of its steps.
StepCalls ==
    << <<"subprocess.run", "dpkg">>,
       <<"os.path.exists", auto_upgrades_file>>,
       <<"open", auto_upgrades_file>>,
       <<"os.path.exists", auto_updates_file>>,
       <<"open", auto_updates_file>> >>

\* The call succeeded: the program can go on to the next one.
Passed(c) ==
    CASE c.op = "subprocess.run" -> c.outcome = "exit"
      [] c.op = "os.path.exists" -> c.outcome = TRUE
      [] OTHER -> c.outcome = "ok"

\* The verdicts that are not made by an except clause.
PlainVerdicts ==
    {NotInstalled, NotFound50, NoAllowedOrigins, NotFound20, NoPeriodic, EnabledVerdict}

\* C2: the steps run in the order package query, existence of
\* 50unattended-upgrades, its key, existence of 20auto-upgrades, its
\* directives; no step runs after a failed one; the verdict is the one of the
\* first failing step.
C2_OrderedShortCircuit ==
    LET cc == CheckCalls IN
    /\ Len(cc) <= Len(StepCalls)
    /\ \A i \in 1..Len(cc) : <<cc[i].op, cc[i].path>> = StepCalls[i]
    /\ \A i \in 1..(Len(cc) - 1) : Passed(cc[i])
    /\ InCheck =>
        /\ PackageAbsent => Len(cc) = 1
        /\ KeyAbsent => Len(cc) = 3
    /\ pc = "check_return" =>
        /\ ~ret.raised
        /\ Len(cc) >= 1
        /\ IF DpkgRaised \/ Read50Raised \/ Read20Raised
             THEN ~ret.v.enabled /\ ret.v \notin PlainVerdicts
             ELSE ret.v = CASE PackageAbsent -> NotInstalled
                            [] File50Absent -> NotFound50
                            [] KeyAbsent -> NoAllowedOrigins
                            [] File20Absent -> NotFound20
                            [] PeriodicAbsent -> NoPeriodic
                            [] OTHER -> EnabledVerdict

\* C2's case: the key is missing from 50unattended-upgrades, and the check
\* returned without a call about 20auto-upgrades.
C2_Witness ==
    /\ pc = "check_return"
    /\ KeyAbsent
    /\ Len(CheckCalls) = 3

\* C3 as stated: the package reported absent, or the query failing to run,
\* gives enabled=false with the message "Unattended upgrades package is not
\* installed."
C3_Original ==
    pc = "check_return" =>
        (PackageAbsent \/ DpkgRaised =>
            /\ ~ret.raised
            /\ ret.v = Verdict(FALSE, "Unattended upgrades package is not installed."))

\* C3, amended: a non-zero exit code of the query gives enabled=false with the
\* message "Unattended upgrades package is not installed."; a query that could
\* not be run gives enabled=false with a message made by an except clause,
\* which is "Error: File not found: [Errno 2] No such file or directory:
\* 'dpkg'" when the dpkg binary is missing, and never the not-installed one.
C3_Amended ==
    pc = "check_return" =>
        /\ PackageAbsent =>
            /\ ~ret.raised
            /\ ret.v = Verdict(FALSE, "Unattended upgrades package is not installed.")
        /\ DpkgRaised =>
            /\ ~ret.raised
            /\ ret.v.enabled = FALSE
            /\ ret.v.status # "Unattended upgrades package is not installed."
        /\ Saw("check", "subprocess.run", "dpkg", "FileNotFoundError") =>
            /\ ~ret.raised
            /\ ret.v = Verdict(FALSE,
                 "Error: File not found: [Errno 2] No such file or directory: 'dpkg'")

\* C3's case: the dpkg binary could not be started.
C3_Witness ==
    /\ pc = "check_return"
    /\ Saw("check", "subprocess.run", "dpkg", "FileNotFoundError")

AllStepsPass ==
    /\ PackagePresent
    /\ File50Present /\ KeyPresent
    /\ File20Present /\ UpdateListsPresent /\ UnattendedPresent

\* C4: the verdict is enabled=true, with the message "Unattended upgrades are
\* enabled and properly configured.", exactly when the query succeeds, both
\* files exist and are read, the first holds the Allowed-Origins key and the
\* second holds both periodic directives.
C4_EnabledExactlyWhenAllPass ==
    pc = "check_return" =>
        /\ ~ret.raised
        /\ ret.v.enabled <=> AllStepsPass
        /\ ret.v.enabled =>
             ret.v.status = "Unattended upgrades are enabled and properly configured."

\* C4's case: every step passed and the check returned.
C4_Witness ==
    /\ pc = "check_return"
    /\ AllStepsPass
    /\ ret.v.enabled

\* C5: with the package present and 50unattended-upgrades absent the message
\* is exactly "Configuration file not found:
\* /etc/apt/apt.conf.d/50unattended-upgrades"; with steps 1-3 passed and
\* 20auto-upgrades absent the verdict is enabled=false and names that path.
C5_MissingFileMessages ==
    pc = "check_return" =>
        /\ PackagePresent /\ File50Absent =>
            /\ ~ret.raised
            /\ ret.v = Verdict(FALSE,
                 "Configuration file not found: /etc/apt/apt.conf.d/50unattended-upgrades")
        /\ PackagePresent /\ File50Present /\ KeyPresent /\ File20Absent =>
            /\ ~ret.raised
            /\ ret.v = Verdict(FALSE,
                 "Configuration file not found: /etc/apt/apt.conf.d/20auto-upgrades")

\* C5's case: steps 1-3 passed and 20auto-upgrades is absent.
C5_Witness ==
    /\ pc = "check_return"
    /\ KeyPresent
    /\ File20Absent

\* The step a returned verdict comes from.
Cause ==
    CASE DpkgRaised \/ Read50Raised \/ Read20Raised -> "exception"
      [] PackageAbsent -> "package absent"
      [] File50Absent -> "50unattended-upgrades absent"
      [] KeyAbsent -> "Allowed-Origins absent"
      [] File20Absent -> "20auto-upgrades absent"
      [] PeriodicAbsent -> "periodic directive absent"
      [] OTHER -> "none"

\* The message of each cause.
MessageOf ==
    [c \in {"package absent", "50unattended-upgrades absent", "Allowed-Origins absent",
            "20auto-upgrades absent", "periodic directive absent", "none"} |->
        CASE c = "package absent" -> NotInstalled.status
          [] c = "50unattended-upgrades absent" -> NotFound50.status
          [] c = "Allowed-Origins absent" -> NoAllowedOrigins.status
          [] c = "20auto-upgrades absent" -> NotFound20.status
          [] c = "periodic directive absent" -> NoPeriodic.status
          [] OTHER -> EnabledVerdict.status]

\* C6: the message identifies the cause: the messages of the five causes and
\* of success are pairwise different, and the returned message is the one of a
\* cause exactly when that cause is what happened.
C6_MessageIdentifiesCause ==
    pc = "check_return" =>
        /\ ~ret.raised
        /\ \A c, d \in DOMAIN MessageOf : MessageOf[c] = MessageOf[d] => c = d
        /\ LET cause == Cause IN
             \A c \in DOMAIN MessageOf : ret.v.status = MessageOf[c] <=> cause = c

\* C6's case: the periodic directives are missing and the check returned.
C6_Witness ==
    /\ pc = "check_return"
    /\ PeriodicAbsent
    /\ ret.v.status = "Automatic updates are not enabled in APT::Periodic."

\* The suffix of the path is one audit_config_file has a loader for.
SupportedSuffix(p) ==
    \/ EndsWith(p, <<".", "y", "a", "m", "l">>)
    \/ EndsWith(p, <<".", "y", "m", "l">>)
    \/ EndsWith(p, <<".", "j", "s", "o", "n">>)

\* The audit opened and parsed both files and validate returned.
AuditAllOk ==
    LET ac == AuditCalls IN
    /\ Len(ac) = 5
    /\ \A i \in 1..5 : ac[i].outcome = "ok"
    /\ <<ac[1].op, ac[1].path>> = <<"open", Str(args.config_file.v)>>
    /\ ac[2].op \in {"yaml.safe_load", "json.load"}
    /\ ac[2].path = Str(args.config_file.v)
    /\ <<ac[3].op, ac[3].path>> = <<"open", Str(args.schema_file.v)>>
    /\ <<ac[4].op, ac[4].path>> = <<"json.load", Str(args.schema_file.v)>>
    /\ ac[5].op = "validate"

\* C7: audit_config_file never lets an exception out and returns a boolean:
\* True exactly when the suffix is supported, both files open and parse and
\* validation reports nothing; False in every other case.
C7_AuditReturnsBoolean ==
    pc = "audit_return" =>
        /\ ~audit_ret.raised
        /\ audit_ret.v \in BOOLEAN
        /\ audit_ret.v <=> (SupportedSuffix(args.config_file.v) /\ AuditAllOk)

\* C7's case: validate raised an exception that is no ValidationError, and
\* the audit returned.
C7_Witness ==
    /\ pc = "audit_return"
    /\ Saw("audit", "validate", "", "SchemaError")

\* C8: a config path with none of the suffixes .yaml, .yml, .json is invalid
\* at once: the audit returns False and opens neither file.
C8_UnsupportedSuffix ==
    args.config_file.set /\ ~SupportedSuffix(args.config_file.v) =>
        /\ AuditCalls = <<>>
        /\ pc \notin {"audit_schema", "audit_validate"}
        /\ pc = "audit_return" => audit_ret = Return(FALSE)

\* C8's case: the audit of c.txt returned.
C8_Witness ==
    /\ pc = "audit_return"
    /\ args.config_file = Val(<<"c", ".", "t", "x", "t">>)

\* The path does not exist: main's test said so, or the path is the empty
\* string, which names no file (os.path.exists('') is False).
NoSuchFile(x) ==
    \/ x.v = <<>>
    \/ Saw("main", "os.path.exists", Str(x.v), FALSE)

\* C9: the exit code is 1 when --config-file and --schema-file are both given
\* and the config path does not exist, or the schema path does not exist, or
\* audit_config_file returns False; it is 0 in every other run.
C9_ExitCode ==
    pc = "done" =>
        exit_code.v =
            IF /\ args.config_file.set
               /\ args.schema_file.set
               /\ \/ NoSuchFile(args.config_file)
                  \/ NoSuchFile(args.schema_file)
                  \/ audit_ret = Return(FALSE)
              THEN 1
              ELSE 0

\* The positions of the log at which sys.exit is called.
Exits == {i \in 1..Len(calls) : calls[i].op = "sys.exit"}

\* The call before position i is main's existence test, and it failed.
AfterFailedExists(i) ==
    /\ i > 1
    /\ calls[i - 1].by = "main"
    /\ calls[i - 1].op = "os.path.exists"
    /\ calls[i - 1].outcome = FALSE

\* C10 as stated: the process is terminated only by main, and only when the
\* config file or the schema file does not exist, tested before the audit is
\* invoked; after the audit is invoked nothing forces termination.
C10_Original ==
    \A i \in Exits :
        /\ calls[i].by = "main"
        /\ AfterFailedExists(i)
        /\ audit_ret = NotYet

\* C10, amended: the process is terminated only by main, with sys.exit(1), in
\* three cases: the config file does not exist, the schema file does not
\* exist (both tested before the audit is invoked), or the audit was invoked
\* and returned False.  When the audit returns True, main prints and returns.
C10_Amended ==
    /\ \A i \in Exits :
        /\ calls[i].by = "main"
        /\ calls[i].outcome = 1
        /\ i = Len(calls)
        /\ pc = "done"
        /\ IF audit_ret = NotYet
             THEN AfterFailedExists(i) /\ AuditCalls = <<>>
             ELSE audit_ret = Return(FALSE)
    /\ pc = "done" /\ audit_ret = Return(TRUE) => Exits = {} /\ exit_code = Val(0)

\* C10's case: the audit returned False and main called sys.exit(1).
C10_Witness ==
    /\ pc = "done"
    /\ audit_ret = Return(FALSE)
    /\ Exits # {}
====
